---- MODULE Spec2Model ----
(***************************************************************************)
(* A state-machine model of hatetracker/textrank.py: the phrase extractor  *)
(* wrapper get_phrases, the batcher batch_files, the lazy batch pipeline   *)
(* batched_file_process_iter and the dispatcher text_rank, run over a      *)
(* small file system.                                                      *)
(***************************************************************************)
EXTENDS Integers, Sequences, FiniteSets, TLC

\* Python's None for an Optional[int]; Some(k) is the integer k.
None == <<>>
Some(k) == <<k>>
Val(o) == o[1]

Min(a, b) == IF a <= b THEN a ELSE b

----------------------------------------------------------------------------
\* pathlib: a path is the sequence of its components below the working
\* directory, a component is a stem and a suffix (name = stem + suffix).

Nm(s, x) == [stem |-> s, suffix |-> x]

PathName(p) == p[Len(p)]
PathSuffix(p) == PathName(p).suffix
Parent(p) == SubSeq(p, 1, Len(p) - 1)
Join(p, n) == Append(p, n)
with_suffix(p, sfx) == [p EXCEPT ![Len(p)] = Nm(@.stem, sfx)]

\* File-system nodes.  Every node has the same shape so that two file
\* systems can be compared: a text file holds words, a CSV file holds a
\* header (in words) and rows.
NoData == [fmt |-> "none", words |-> <<>>, rows |-> <<>>]
DirNode == [kind |-> "dir", data |-> NoData]
TextData(ws) == [fmt |-> "text", words |-> ws, rows |-> <<>>]
FileNode(d) == [kind |-> "file", data |-> d]

Exists(f, p) == p \in DOMAIN f
is_file(f, p) == p \in DOMAIN f /\ f[p].kind = "file"
is_dir(f, p) == p \in DOMAIN f /\ f[p].kind = "dir"
Children(f, p) == {q \in DOMAIN f : Len(q) = Len(p) + 1 /\ Parent(q) = p}
PutNode(f, p, n) == [q \in DOMAIN f \cup {p} |-> IF q = p THEN n ELSE f[q]]

\* The OSError of a system call on a path that is not there: ENOTDIR when a
\* component above it is a regular file, ENOENT otherwise.
MissingError(f, p) ==
  IF \E k \in 1..(Len(p) - 1) : is_file(f, SubSeq(p, 1, k))
  THEN "NotADirectoryError"
  ELSE "FileNotFoundError"

\* All orders in which a directory listing can return a set of entries.
Perms(S) ==
  {s \in [1..Cardinality(S) -> S] : \A i, j \in 1..Cardinality(S) : i # j => s[i] # s[j]}

----------------------------------------------------------------------------
\* The text of a file, as open(file).read() returns it, in whitespace-separated
\* words.  A text file holds its words.  A file written by csv.DictWriter
\* holds one line for the header and one per row, no whitespace inside: the
\* fields joined by commas, a field that holds a comma or a quote put in
\* quotes with its quotes doubled (csv.QUOTE_MINIMAL).
RECURSIVE DoubleQuotes(_)
DoubleQuotes(s) ==
  IF Len(s) = 0 THEN ""
  ELSE (IF SubSeq(s, 1, 1) = "\"" THEN "\"\"" ELSE SubSeq(s, 1, 1))
         \o DoubleQuotes(SubSeq(s, 2, Len(s)))

CsvField(s) ==
  IF \E i \in 1..Len(s) : SubSeq(s, i, i) \in {",", "\""}
  THEN "\"" \o DoubleQuotes(s) \o "\""
  ELSE s

CsvLine(row) == CsvField(row[1]) \o "," \o ToString(row[2]) \o "," \o ToString(row[3])

FileText(data) ==
  IF data.fmt = "csv"
  THEN <<data.words[1] \o "," \o data.words[2] \o "," \o data.words[3]>>
         \o [i \in 1..Len(data.rows) |-> CsvLine(data.rows[i])]
  ELSE data.words

\* The phrase extractor (spaCy + pytextrank, lines 12-13 and 34-36): for one
\* document it returns its phrases by descending rank.  Here a phrase is a
\* distinct word, its count the number of occurrences and its rank the count;
\* equal ranks keep the order of first occurrence.

CountOf(w, ws) == Cardinality({i \in 1..Len(ws) : ws[i] = w})

RECURSIVE Dedup(_, _)
Dedup(ws, seen) ==
  IF ws = <<>> THEN <<>>
  ELSE IF Head(ws) \in seen THEN Dedup(Tail(ws), seen)
  ELSE <<Head(ws)>> \o Dedup(Tail(ws), seen \cup {Head(ws)})

RECURSIVE InsertByRank(_, _)
InsertByRank(p, s) ==
  IF s = <<>> THEN <<p>>
  ELSE IF p.rank >= Head(s).rank THEN <<p>> \o s
  ELSE <<Head(s)>> \o InsertByRank(p, Tail(s))

RECURSIVE SortByRank(_)
SortByRank(ps) ==
  IF ps = <<>> THEN <<>> ELSE InsertByRank(Head(ps), SortByRank(Tail(ps)))

doc_phrases(data) ==
  LET ws == FileText(data)
      d == Dedup(ws, {})
  IN SortByRank([i \in 1..Len(d) |->
                   [text |-> d[i], rank |-> CountOf(d[i], ws), count |-> CountOf(d[i], ws)]])

\* get_phrases, lines 35-44: the loop over one document's phrases.  The
\* phrase is appended first and the limit is tested afterwards.
RECURSIVE curr_phrases(_, _, _)
curr_phrases(phrases, curr, limit) ==
  IF phrases = <<>> THEN curr
  ELSE LET p == Head(phrases)
           c2 == Append(curr, [text |-> p.text, rank |-> p.rank, count |-> p.count])
       IN IF limit # None /\ Len(c2) >= Val(limit) THEN c2
          ELSE curr_phrases(Tail(phrases), c2, limit)

\* get_phrases, lines 33-46: one PhraseList per text, in order.
get_phrases(texts, limit) ==
  [i \in 1..Len(texts) |-> curr_phrases(doc_phrases(texts[i]), <<>>, limit)]

\* csv.DictWriter, lines 168-171: the header is the keys of the first
\* phrase, then one row per phrase in order.
CsvData(phrases) ==
  [fmt |-> "csv", words |-> <<"text", "rank", "count">>,
   rows |-> [i \in 1..Len(phrases) |-> <<phrases[i].text, phrases[i].rank, phrases[i].count>>]]

----------------------------------------------------------------------------
\* batch_files, lines 62-63.

\* i \in range(0, stop, step), for the i = 0, step, 2*step, ... the loop reaches
InRange(i, stop, step) == IF step > 0 THEN i < stop ELSE i > stop

\* iterable[i : i + batch_size] for 0 <= i < len(iterable), batch_size > 0
BatchSliceDrop(iterable, i, batch_size) ==
  SubSeq(iterable, i + 1, Min(i + batch_size, Len(iterable)) - 1)
batch_slice(iterable, i, batch_size) ==
  SubSeq(iterable, i + 1, Min(i + batch_size, Len(iterable)))

----------------------------------------------------------------------------
\* text_rank's own decisions, lines 130-174.

\* line 137: curr_file.suffix == input_file_suffix
MatchesSuffix(curr_file, input_file_suffix) == PathSuffix(curr_file) = input_file_suffix

\* lines 151-155: the path one file's phrases are written to
CurrOutputPath(write_to_output_path, output_path, file_path) ==
  IF write_to_output_path THEN output_path
  ELSE with_suffix(Join(output_path, PathName(file_path)), ".csv")

\* line 157: len(phrases) == 0
SkipNever(phrases) == FALSE
SkipEmpty(phrases) == Len(phrases) = 0

\* line 163: curr_output_path.is_file()
AlreadyThereNever(f, p) == FALSE
AlreadyThere(f, p) == is_file(f, p)

\* lines 90-92: the inner loop has read every file of the batch
BatchReadFirstOnly(texts, batch) == Len(texts) >= 1
BatchRead(texts, batch) == Len(texts) = Len(batch)

----------------------------------------------------------------------------
\* Bounds of the model.

\* Nested text_rank calls after which Python raises RecursionError.
RecursionLimit == 5
\* Longest file list handed to the pipeline when it is consumed directly.
MaxFiles == 3
\* Largest explicit batch size and phrase limit tried.
MaxBatch == 2
MaxLimit == 2

VARIABLES
  fs,        \* the file system: path -> node
  fs0,       \* the file system when the first run started
  fs1,       \* the file system when the first run returned
  written1,  \* the paths the first run wrote
  args,      \* the arguments of the run
  stack,     \* the text_rank frames, the running one last
  gen,       \* the generator batched_file_process_iter of the running frame
  handles,   \* the files currently open for reading
  events,    \* what the current run has done so far, in order
  yielded,   \* the PhraseLists the current generator has yielded
  status,    \* "running", "done" or "failed"
  error,     \* the exception that ended the run
  run        \* 1 or 2: the first run or its repetition

vars == <<fs, fs0, fs1, written1, args, stack, gen, handles, events, yielded, status, error, run>>

Ev(op, path, n) == [op |-> op, path |-> path, n |-> n]

Top == stack[Len(stack)]
SetTop(f) == [stack EXCEPT ![Len(stack)] = f]

Frame(mode, input_path, output_path, input_files, pc) ==
  [mode |-> mode, input_path |-> input_path, output_path |-> output_path,
   write_to_output_path |-> FALSE, input_files |-> input_files, idx |-> 0,
   file_path |-> <<>>, phrases |-> <<>>, curr_output_path |-> <<>>,
   todo |-> {}, pc |-> pc]

NoGen ==
  [state |-> "none", pc |-> "begin", file_paths |-> <<>>, batch_size |-> None,
   limit |-> None, i |-> 0, batch |-> <<>>, texts |-> <<>>, results |-> <<>>, r |-> 0]

Running == status = "running"
InFrame == Running /\ gen.state # "running"
InGen == Running /\ gen.state = "running"

\* An exception nobody catches: it ends the run.
Raise(kind) == status' = "failed" /\ error' = kind

----------------------------------------------------------------------------
\* text_rank, lines 127-187.

\* lines 127-138: the run target and the files to process.  iterdir() lists
\* the directory once, in an order the platform chooses.
Resolve ==
  /\ InFrame /\ Top.mode = "text_rank" /\ Top.pc = "start"
  /\ events' = Append(events, Ev("call", Top.input_path, Len(stack)))
  /\ IF is_file(fs, Top.input_path)
     THEN /\ stack' = SetTop([Top EXCEPT !.input_files = <<Top.input_path>>,
                                         !.write_to_output_path = TRUE,
                                         !.pc = "make_gen"])
          /\ UNCHANGED <<status, error>>
     ELSE IF is_dir(fs, Top.input_path)
     THEN /\ \E order \in Perms({c \in Children(fs, Top.input_path) :
                                   MatchesSuffix(c, args.input_file_suffix)}) :
               stack' = SetTop([Top EXCEPT !.input_files = order, !.pc = "mkdir"])
          /\ UNCHANGED <<status, error>>
     ELSE /\ Raise(MissingError(fs, Top.input_path))
          /\ UNCHANGED stack
  /\ UNCHANGED <<fs, fs0, fs1, written1, args, gen, handles, yielded, run>>

\* lines 139-140: output_path.mkdir(exist_ok=True), not recursive.
Mkdir ==
  /\ InFrame /\ Top.pc = "mkdir"
  /\ LET out == Top.output_path IN
     IF is_dir(fs, out)
     THEN /\ stack' = SetTop([Top EXCEPT !.write_to_output_path = FALSE, !.pc = "make_gen"])
          /\ UNCHANGED <<fs, events, status, error>>
     ELSE IF Exists(fs, out)
     THEN /\ Raise("FileExistsError")
          /\ UNCHANGED <<fs, events, stack>>
     ELSE IF ~is_dir(fs, Parent(out))
     THEN /\ Raise(MissingError(fs, out))
          /\ UNCHANGED <<fs, events, stack>>
     ELSE /\ fs' = PutNode(fs, out, DirNode)
          /\ events' = Append(events, Ev("mkdir", out, 0))
          /\ stack' = SetTop([Top EXCEPT !.write_to_output_path = FALSE, !.pc = "make_gen"])
          /\ UNCHANGED <<status, error>>
  /\ UNCHANGED <<fs0, fs1, written1, args, gen, handles, yielded, run>>

\* lines 142-148: zip(input_files, batched_file_process_iter(...)).  Calling a
\* generator function runs none of its body.
MakeGen ==
  /\ InFrame /\ Top.pc = "make_gen"
  /\ gen' = [NoGen EXCEPT !.state = "created", !.file_paths = Top.input_files,
                          !.batch_size = args.file_batch_size, !.limit = args.phrase_limit]
  /\ yielded' = <<>>
  /\ stack' = SetTop([Top EXCEPT !.idx = 0,
                                 !.pc = IF Top.mode = "list" THEN "list_next" ELSE "zip_next"])
  /\ events' = Append(events, Ev("generator", Top.input_path, Len(Top.input_files)))
  /\ UNCHANGED <<fs, fs0, fs1, written1, args, handles, status, error, run>>

\* line 142, zip.__next__: the next input file first and, only when there is
\* one, the generator's next result.
ZipNext ==
  /\ InFrame /\ Top.pc = "zip_next"
  /\ IF Top.idx = Len(Top.input_files)
     THEN /\ stack' = SetTop([Top EXCEPT !.pc = "after_loop"])
          /\ UNCHANGED <<gen, events>>
     ELSE /\ stack' = SetTop([Top EXCEPT !.idx = @ + 1,
                                         !.file_path = Top.input_files[Top.idx + 1],
                                         !.pc = "await"])
          /\ gen' = [gen EXCEPT !.state = "running"]
          /\ events' = Append(events, Ev("next", Top.input_files[Top.idx + 1], Top.idx + 1))
  /\ UNCHANGED <<fs, fs0, fs1, written1, args, handles, yielded, status, error, run>>

\* lines 151-161: the output path of the pair, and the skip of an empty list
\* (warnings.warn once, its message naming output_path, then continue).
Body ==
  /\ InFrame /\ Top.pc = "body"
  /\ LET curr == CurrOutputPath(Top.write_to_output_path, Top.output_path, Top.file_path) IN
     IF SkipEmpty(Top.phrases)
     THEN /\ events' = events \o <<Ev("warn_empty", Top.output_path, Top.idx),
                                    Ev("skip", curr, Top.idx)>>
          /\ stack' = SetTop([Top EXCEPT !.curr_output_path = curr, !.pc = "zip_next"])
     ELSE /\ stack' = SetTop([Top EXCEPT !.curr_output_path = curr, !.pc = "check_exists"])
          /\ UNCHANGED events
  /\ UNCHANGED <<fs, fs0, fs1, written1, args, gen, handles, yielded, status, error, run>>

\* lines 163-166: the warning for a destination that is already a file
\* (warnings.warn once, its message naming output_path).
CheckExists ==
  /\ InFrame /\ Top.pc = "check_exists"
  /\ events' = IF AlreadyThere(fs, Top.curr_output_path)
               THEN Append(events, Ev("warn_exists", Top.output_path, Top.idx))
               ELSE events
  /\ stack' = SetTop([Top EXCEPT !.pc = "write"])
  /\ UNCHANGED <<fs, fs0, fs1, written1, args, gen, handles, yielded, status, error, run>>

\* lines 168-171: open(curr_output_path, "w") creates or truncates the file,
\* then the header (the keys of phrases[0]) and the rows are written.
WriteCsv ==
  /\ InFrame /\ Top.pc = "write"
  /\ LET curr == Top.curr_output_path IN
     IF is_dir(fs, curr)
     THEN /\ Raise("IsADirectoryError")
          /\ UNCHANGED <<fs, events, stack>>
     ELSE IF ~is_dir(fs, Parent(curr))
     THEN /\ Raise(MissingError(fs, curr))
          /\ UNCHANGED <<fs, events, stack>>
     ELSE IF Len(Top.phrases) = 0
     THEN /\ fs' = PutNode(fs, curr, FileNode(TextData(<<>>)))
          /\ Raise("IndexError")
          /\ UNCHANGED <<events, stack>>
     ELSE /\ fs' = PutNode(fs, curr, FileNode(CsvData(Top.phrases)))
          /\ events' = Append(events, Ev("write", curr, Top.idx))
          /\ stack' = SetTop([Top EXCEPT !.pc = "zip_next"])
          /\ UNCHANGED <<status, error>>
  /\ UNCHANGED <<fs0, fs1, written1, args, gen, handles, yielded, run>>

\* The return of the running call: to its caller's loop, or out of the run.
Returned ==
  IF Len(stack) = 1
  THEN /\ stack' = SetTop([Top EXCEPT !.pc = "returned"])
       /\ status' = "done"
  ELSE /\ stack' = SubSeq(stack, 1, Len(stack) - 1)
       /\ UNCHANGED status

\* lines 173-176: return, or list the input directory again for the
\* subdirectories.
AfterLoop ==
  /\ InFrame /\ Top.pc = "after_loop"
  /\ IF ~args.recursive \/ Top.write_to_output_path
     THEN Returned
     ELSE /\ stack' = SetTop([Top EXCEPT !.todo = Children(fs, Top.input_path), !.pc = "recurse"])
          /\ UNCHANGED status
  /\ UNCHANGED <<fs, fs0, fs1, written1, args, gen, handles, events, yielded, error, run>>

\* lines 176-187: the loop over the listing, in the listing's order, up to
\* its next directory (an entry that is no directory is passed over, line
\* 177-178): text_rank on it with the output rebased.
RecurseStep ==
  /\ InFrame /\ Top.pc = "recurse"
  /\ \E next_dir \in {d \in Top.todo : is_dir(fs, d)} :
       LET rest == [Top EXCEPT !.todo = @ \ {next_dir}] IN
       IF Len(stack) >= RecursionLimit
       THEN /\ Raise("RecursionError")
            /\ UNCHANGED stack
       ELSE /\ stack' = Append(SetTop(rest),
                               Frame("text_rank", next_dir,
                                     Join(Top.output_path, PathName(next_dir)), <<>>, "start"))
            /\ UNCHANGED <<status, error>>
  /\ UNCHANGED <<fs, fs0, fs1, written1, args, gen, handles, events, yielded, run>>

\* line 176: no directory is left in the listing, the call returns.
RecurseDone ==
  /\ InFrame /\ Top.pc = "recurse" /\ \A d \in Top.todo : ~is_dir(fs, d)
  /\ Returned
  /\ UNCHANGED <<fs, fs0, fs1, written1, args, gen, handles, events, yielded, error, run>>

----------------------------------------------------------------------------
\* batched_file_process_iter, lines 85-95, as the coroutine it is: it runs
\* only between a next() of its consumer and its next yield.

\* lines 85-86
GenBegin ==
  /\ InGen /\ gen.pc = "begin"
  /\ gen' = [gen EXCEPT !.batch_size = IF @ = None THEN Some(Len(gen.file_paths)) ELSE @,
                        !.i = 0, !.pc = "first_batch"]
  /\ UNCHANGED <<fs, fs0, fs1, written1, args, stack, handles, events, yielded, status, error, run>>

\* line 88 with lines 62-63: the next batch.  range() is built when the first
\* batch is asked for and refuses a step of 0; past the end the generator
\* finishes and its consumer's loop ends.
GenNextBatch ==
  /\ InGen /\ gen.pc \in {"first_batch", "next_batch"}
  /\ LET B == Val(gen.batch_size)
         N == Len(gen.file_paths)
     IN IF gen.pc = "first_batch" /\ B = 0
        THEN /\ gen' = [gen EXCEPT !.state = "raised"]
             /\ Raise("ValueError")
             /\ UNCHANGED stack
        ELSE IF InRange(gen.i, N, B)
        THEN /\ gen' = [gen EXCEPT !.batch = batch_slice(gen.file_paths, gen.i, B),
                                   !.texts = <<>>,
                                   !.pc = IF batch_slice(gen.file_paths, gen.i, B) = <<>>
                                          THEN "extract" ELSE "open"]
             /\ UNCHANGED <<stack, status, error>>
        ELSE /\ gen' = [gen EXCEPT !.state = "finished"]
             /\ stack' = SetTop([Top EXCEPT !.pc = IF Top.mode = "list" THEN "list_done"
                                                   ELSE "after_loop"])
             /\ UNCHANGED <<status, error>>
  /\ UNCHANGED <<fs, fs0, fs1, written1, args, handles, events, yielded, run>>

\* line 91: open(file)
GenOpen ==
  /\ InGen /\ gen.pc = "open"
  /\ LET file == gen.batch[Len(gen.texts) + 1] IN
     IF is_file(fs, file)
     THEN /\ handles' = handles \cup {file}
          /\ events' = Append(events, Ev("open", file, gen.i))
          /\ gen' = [gen EXCEPT !.pc = "read"]
          /\ UNCHANGED <<status, error>>
     ELSE /\ gen' = [gen EXCEPT !.state = "raised"]
          /\ Raise(IF is_dir(fs, file) THEN "IsADirectoryError" ELSE MissingError(fs, file))
          /\ UNCHANGED <<handles, events>>
  /\ UNCHANGED <<fs, fs0, fs1, written1, args, stack, yielded, run>>

\* line 92 and the end of the with block: read everything, close.
GenRead ==
  /\ InGen /\ gen.pc = "read"
  /\ LET file == gen.batch[Len(gen.texts) + 1]
         texts == Append(gen.texts, fs[file].data)
     IN /\ gen' = [gen EXCEPT !.texts = texts,
                              !.pc = IF BatchRead(texts, gen.batch) THEN "extract" ELSE "open"]
        /\ handles' = handles \ {file}
        /\ events' = Append(events, Ev("read", file, gen.i))
  /\ UNCHANGED <<fs, fs0, fs1, written1, args, stack, yielded, status, error, run>>

\* line 94: one call of the extractor on the texts of the batch.
GenExtract ==
  /\ InGen /\ gen.pc = "extract"
  /\ LET results == get_phrases(gen.texts, gen.limit) IN
     gen' = [gen EXCEPT !.results = results, !.r = 0,
                        !.i = IF results = <<>> THEN @ + Val(gen.batch_size) ELSE @,
                        !.pc = IF results = <<>> THEN "next_batch" ELSE "yield"]
  /\ events' = Append(events, Ev("extract", <<>>, gen.i))
  /\ UNCHANGED <<fs, fs0, fs1, written1, args, stack, handles, yielded, status, error, run>>

\* line 95: yield phrase_list.  The generator is suspended and its consumer
\* goes on with the value.
GenYield ==
  /\ InGen /\ gen.pc = "yield"
  /\ LET phrase_list == gen.results[gen.r + 1]
         last == gen.r + 1 = Len(gen.results)
     IN /\ gen' = [gen EXCEPT !.state = "suspended", !.r = @ + 1,
                              !.i = IF last THEN @ + Val(gen.batch_size) ELSE @,
                              !.pc = IF last THEN "next_batch" ELSE "yield"]
        /\ yielded' = Append(yielded, phrase_list)
        /\ stack' = SetTop([Top EXCEPT !.phrases = phrase_list,
                                       !.pc = IF Top.mode = "list" THEN "list_next" ELSE "body"])
        /\ events' = Append(events, Ev("yield", Top.file_path, Len(phrase_list)))
  /\ UNCHANGED <<fs, fs0, fs1, written1, args, handles, status, error, run>>

----------------------------------------------------------------------------
\* The pipeline consumed directly and to exhaustion, as list(...) does.

ListNext ==
  /\ InFrame /\ Top.mode = "list" /\ Top.pc = "list_next"
  /\ gen' = [gen EXCEPT !.state = "running"]
  /\ stack' = SetTop([Top EXCEPT !.idx = @ + 1, !.pc = "await"])
  /\ events' = Append(events, Ev("next", <<>>, Top.idx + 1))
  /\ UNCHANGED <<fs, fs0, fs1, written1, args, handles, yielded, status, error, run>>

ListDone ==
  /\ InFrame /\ Top.mode = "list" /\ Top.pc = "list_done"
  /\ Returned
  /\ UNCHANGED <<fs, fs0, fs1, written1, args, gen, handles, events, yielded, error, run>>

----------------------------------------------------------------------------
\* The same run once more, on what the first run left.

WrittenPaths == {events[i].path : i \in {j \in 1..Len(events) : events[j].op = "write"}}

FirstFrame == Frame("text_rank", args.input_path, args.output_path, <<>>, "start")

SecondRun ==
  /\ status = "done" /\ run = 1 /\ Top.mode = "text_rank"
  /\ run' = 2
  /\ fs1' = fs
  /\ written1' = WrittenPaths
  /\ stack' = <<FirstFrame>>
  /\ gen' = NoGen
  /\ events' = <<>>
  /\ yielded' = <<>>
  /\ status' = "running"
  /\ UNCHANGED <<fs, fs0, args, handles, error>>

----------------------------------------------------------------------------
\* The inputs.

IN_ == Nm("in", "")
OUT_ == Nm("out", "")
SUB == Nm("sub", "")
DEEP == Nm("deep", "")
X_TXT == Nm("x", ".txt")
Y_TXT == Nm("y", ".txt")
N_MD == Nm("n", ".md")
D_TXT == Nm("d", ".txt")
Z_TXT == Nm("z", ".txt")
X_CSV == Nm("x", ".csv")

T0 == <<>>
T1 == <<"gamma">>
T2 == <<"alpha", "alpha", "beta">>
Stale == <<"stale">>

MkFs(entries) == [p \in {e[1] : e \in entries} |-> (CHOOSE e \in entries : e[1] = p)[2]]

\* in/{x.txt, y.txt, sub/{n.md, y.txt, deep/{x.txt}}}, with a third entry
\* named *.txt in in/ (a file z.txt, or a directory d.txt, which open()
\* refuses) and an earlier out/x.csv when asked for.
Tree(cx, cy, extra, preOut) ==
  MkFs({ <<<<>>, DirNode>>,
         <<<<IN_>>, DirNode>>,
         <<<<IN_, X_TXT>>, FileNode(TextData(cx))>>,
         <<<<IN_, Y_TXT>>, FileNode(TextData(cy))>>,
         <<<<IN_, SUB>>, DirNode>>,
         <<<<IN_, SUB, N_MD>>, FileNode(TextData(T1))>>,
         <<<<IN_, SUB, Y_TXT>>, FileNode(TextData(T2))>>,
         <<<<IN_, SUB, DEEP>>, DirNode>>,
         <<<<IN_, SUB, DEEP, X_TXT>>, FileNode(TextData(T1))>> }
       \cup (IF extra = "dir" THEN { <<<<IN_, D_TXT>>, DirNode>> } ELSE {})
       \cup (IF extra = "file" THEN { <<<<IN_, Z_TXT>>, FileNode(TextData(T1))>> } ELSE {})
       \cup (IF preOut THEN { <<<<OUT_>>, DirNode>>,
                              <<<<OUT_, X_CSV>>, FileNode(TextData(Stale))>> } ELSE {}))

BatchSizes == {None} \cup {Some(b) : b \in -1..MaxBatch}
Limits == {None} \cup {Some(k) : k \in 0..MaxLimit}

Args(input_path, output_path, recursive, suffix, limit, batch) ==
  [input_path |-> input_path, output_path |-> output_path, recursive |-> recursive,
   input_file_suffix |-> suffix, phrase_limit |-> limit, file_batch_size |-> batch]

InitCommon ==
  /\ fs0 = fs /\ fs1 = fs /\ written1 = {}
  /\ gen = NoGen /\ handles = {} /\ events = <<>> /\ yielded = <<>>
  /\ status = "running" /\ error = "" /\ run = 1

\* text_rank(input_path, output_path, recursive, input_file_suffix,
\*           phrase_limit, file_batch_size), the output outside the input tree
InitDisjoint ==
  /\ \E cx \in {T0, T2}, cy \in {T0, T1}, extra \in {"none", "dir", "file"}, preOut \in BOOLEAN :
       fs = Tree(cx, cy, extra, preOut)
  /\ \E input_path \in {<<IN_>>, <<IN_, X_TXT>>},
        recursive \in BOOLEAN, suffix \in {".txt", ".md"},
        limit \in {None, Some(1)}, batch \in BatchSizes :
       args = Args(input_path, <<OUT_>>, recursive, suffix, limit, batch)
  /\ stack = <<FirstFrame>>
  /\ InitCommon

\* the same with the output inside the input directory: in/out
InitInside ==
  /\ \E cx \in {T0, T2} : fs = Tree(cx, T1, "none", FALSE)
  /\ \E input_path \in {<<IN_>>, <<IN_, X_TXT>>}, recursive \in BOOLEAN,
        batch \in {None, Some(1)} :
       args = Args(input_path, <<IN_, OUT_>>, recursive, ".txt", None, batch)
  /\ stack = <<FirstFrame>>
  /\ InitCommon

\* the output path is the input file itself, which holds words or what one
\* or two earlier such runs wrote there
Rewritten(data) == CsvData(doc_phrases(data))

InitSame ==
  /\ \E d \in {TextData(T2), Rewritten(TextData(T2)), Rewritten(Rewritten(TextData(T2)))} :
       fs = PutNode(Tree(T2, T1, "none", FALSE), <<IN_, X_TXT>>, FileNode(d))
  /\ \E limit \in {None, Some(1)} :
       args = Args(<<IN_, X_TXT>>, <<IN_, X_TXT>>, FALSE, ".txt", limit, None)
  /\ stack = <<FirstFrame>>
  /\ InitCommon

\* list(batched_file_process_iter(file_paths, batch_size, limit))
ListFiles ==
  {<<IN_, X_TXT>>, <<IN_, Y_TXT>>, <<IN_, SUB, Y_TXT>>, <<IN_, SUB, N_MD>>, <<IN_, X_TXT, Z_TXT>>}

InitList ==
  /\ fs = Tree(T2, T0, "none", FALSE)
  /\ \E limit \in Limits, batch \in BatchSizes \cup {Some(MaxBatch + 1)} :
       args = Args(<<>>, <<>>, FALSE, "", limit, batch)
  /\ \E n \in 0..MaxFiles : \E files \in [1..n -> ListFiles] :
       /\ \A i, j \in 1..n : i # j => files[i] # files[j]
       /\ stack = <<Frame("list", <<>>, <<>>, files, "make_gen")>>
  /\ InitCommon

Init == InitDisjoint \/ InitInside \/ InitSame \/ InitList

Next ==
  \/ Resolve \/ Mkdir \/ MakeGen \/ ZipNext \/ Body \/ CheckExists \/ WriteCsv
  \/ AfterLoop \/ RecurseStep \/ RecurseDone
  \/ GenBegin \/ GenNextBatch \/ GenOpen \/ GenRead \/ GenExtract \/ GenYield
  \/ ListNext \/ ListDone
  \/ SecondRun

Spec == Init /\ [][Next]_vars

----------------------------------------------------------------------------
\* What the properties below talk about.

IsPrefix(p, q) == Len(p) <= Len(q) /\ SubSeq(q, 1, Len(p)) = p
TextRankRun == stack[1].mode = "text_rank"
ListRun == stack[1].mode = "list"
SingleFile == TextRankRun /\ is_file(fs0, args.input_path)
DirMode == TextRankRun /\ is_dir(fs0, args.input_path)
Disjoint == ~IsPrefix(args.input_path, args.output_path) /\ ~IsPrefix(args.output_path, args.input_path)
PositiveBatch == args.file_batch_size # None /\ Val(args.file_batch_size) > 0

\* The extractor's result for one file's content alone, under a limit.
FullPhrases(file) == get_phrases(<<fs0[file].data>>, None)[1]
PhrasesOf(file) == get_phrases(<<fs0[file].data>>, args.phrase_limit)[1]

\* The mirror image of an input file in the output tree.
Dest(file) ==
  IF SingleFile THEN args.output_path
  ELSE with_suffix(args.output_path \o SubSeq(file, Len(args.input_path) + 1, Len(file)), ".csv")

EventsAt(op) == {i \in 1..Len(events) : events[i].op = op}
CallPaths == {events[i].path : i \in EventsAt("call")}
RunStartFs == IF run = 1 THEN fs0 ELSE fs1
SameNode(f, g, p) == (p \in DOMAIN f <=> p \in DOMAIN g) /\ (p \in DOMAIN f => f[p] = g[p])

\* C1: for every positive batch size the pipeline yields, in the order of the
\* files, each file's own PhraseList -- the extractor's result for that file's
\* content, which does not depend on the batch size -- and exactly N of them
\* when consumed to the end; text_rank pairs each list with its own file and
\* writes it to that file's output path.
C1_BatchingPreservesOrder ==
  PositiveBatch =>
    /\ Len(yielded) <= Len(gen.file_paths)
    /\ \A i \in 1..Len(yielded) : yielded[i] = PhrasesOf(gen.file_paths[i])
    /\ gen.state = "finished" => Len(yielded) = Len(gen.file_paths)
    /\ (TextRankRun /\ Top.pc = "after_loop") => Len(yielded) = Len(Top.input_files)
    /\ (TextRankRun /\ Top.pc \in {"body", "check_exists", "write"})
         => /\ Top.file_path = Top.input_files[Len(yielded)]
            /\ Top.phrases = PhrasesOf(Top.file_path)
    /\ (TextRankRun /\ Top.pc = "zip_next" /\ Len(events) > 0 /\ events[Len(events)].op = "write")
         => /\ events[Len(events)].path = Dest(Top.file_path)
            /\ fs[Dest(Top.file_path)] = FileNode(CsvData(PhrasesOf(Top.file_path)))

C1_Witness ==
  /\ ListRun /\ status = "done" /\ args.file_batch_size = Some(2)
  /\ Len(yielded) = 3 /\ yielded[1] # yielded[2] /\ yielded[2] # yielded[3]

\* C2: a run with an explicit batch size <= 0 fails before any I/O: no input
\* file is read, no directory is created, no output is written, and the run
\* never completes normally.
C2_InvalidBatchSizeBeforeIO ==
  (TextRankRun /\ args.file_batch_size # None /\ Val(args.file_batch_size) <= 0)
    => /\ status # "done"
       /\ \A i \in 1..Len(events) : events[i].op \notin {"mkdir", "open", "read", "write"}

\* C3: with limit = k >= 0 the yielded PhraseList is the prefix of length
\* min(k, full length) of the PhraseList yielded with no limit.
C3_TruncationLaw ==
  (args.phrase_limit # None /\ Val(args.phrase_limit) >= 0)
    => \A i \in 1..Len(yielded) :
         LET full == FullPhrases(gen.file_paths[i])
         IN yielded[i] = SubSeq(full, 1, Min(Val(args.phrase_limit), Len(full)))

\* C4: with the batch size unspecified the pipeline, consumed to exhaustion
\* over N >= 0 files, completes without error, reads all N files before the
\* at most one extractor call, and yields exactly N PhraseLists.
C4_DefaultBatchIsEverything ==
  (ListRun /\ args.file_batch_size = None)
    => /\ status # "failed"
       /\ Cardinality(EventsAt("extract")) <= 1
       /\ \A i \in EventsAt("extract") : Cardinality({j \in EventsAt("read") : j < i}) = Len(gen.file_paths)
       /\ status = "done" => Len(yielded) = Len(gen.file_paths)

\* C5: a processed file whose PhraseList is empty gets exactly one
\* empty-result warning and no write: its destination is neither created nor
\* altered (an earlier file there keeps its content), and the run goes on to
\* the next file.
C5_EmptyResultSkipped ==
  /\ [](TextRankRun =>
          /\ \A i \in EventsAt("yield") :
               events[i].n = 0 =>
                 LET d == Dest(events[i].path) IN
                   /\ SameNode(fs, RunStartFs, d)
                   /\ \A j \in EventsAt("write") : events[j].path # d
                   /\ i < Len(events) =>
                        /\ events[i + 1].op = "warn_empty"
                        /\ events[i + 2] = Ev("skip", d, events[i + 1].n)
                        /\ i + 2 < Len(events) => events[i + 3].op \in {"next", "call"}
          /\ \A j \in EventsAt("warn_empty") :
               j > 1 /\ events[j - 1].op = "yield" /\ events[j - 1].n = 0)
  /\ [][(TextRankRun /\ Top.pc = "body" /\ Top.phrases = <<>> /\ gen.state = "suspended")
          => /\ status' = "running" /\ fs' = fs
             /\ Len(stack') = Len(stack) /\ Top'.pc = "zip_next"
             /\ Len(events') = Len(events) + 2]_vars

C5_Witness ==
  /\ TextRankRun /\ status = "done" /\ run = 1
  /\ is_file(fs0, <<OUT_, X_CSV>>) /\ fs[<<OUT_, X_CSV>>] = fs0[<<OUT_, X_CSV>>]
  /\ \E i \in EventsAt("skip") :
       /\ events[i].path = <<OUT_, X_CSV>>
       /\ \E j \in EventsAt("write") : j > i

\* C6: the second of two runs with the same arguments on an unchanged input
\* tree, the output outside the input tree, leaves the output tree as the
\* first run left it, writes every file the first run wrote, and warns exactly
\* once, just before the write, for each file it writes: an existing
\* destination never makes it skip the write.
C6_IdempotentWithWarning ==
  (TextRankRun /\ run = 2 /\ Disjoint) =>
    /\ status # "failed"
    /\ \A i \in EventsAt("write") :
         /\ i > 1 /\ events[i - 1].op = "warn_exists" /\ events[i - 1].n = events[i].n
         /\ i > 2 => events[i - 2].op # "warn_exists"
    /\ \A j \in EventsAt("warn_exists") :
         j < Len(events) => events[j + 1].op = "write"
    /\ Cardinality(EventsAt("warn_exists")) <= Cardinality(EventsAt("write")) + 1
    /\ status = "done" => /\ fs = fs1 /\ WrittenPaths = written1
                          /\ Cardinality(EventsAt("warn_exists")) = Cardinality(EventsAt("write"))

C6_Witness ==
  /\ TextRankRun /\ run = 2 /\ status = "done" /\ Disjoint
  /\ Cardinality(WrittenPaths) >= 3 /\ Cardinality(EventsAt("warn_exists")) >= 3

\* C7: when the input path is a file, whatever the recursion flag and the
\* suffix filter, nothing but the input file is read, no directory is created,
\* text_rank is not called again, and nothing but the literal output path is
\* written; when its PhraseList is not empty, the completed run has written
\* exactly that one file there, whatever the batch size.
C7_SingleFileMode ==
  (SingleFile /\ run = 1) =>
    /\ Len(stack) = 1 /\ Cardinality(EventsAt("call")) <= 1
    /\ EventsAt("mkdir") = {}
    /\ \A i \in EventsAt("open") \cup EventsAt("read") : events[i].path = args.input_path
    /\ \A i \in EventsAt("write") : events[i].path = args.output_path
    /\ \A p \in (DOMAIN fs \cup DOMAIN fs0) \ {args.output_path} : SameNode(fs, fs0, p)
    /\ (status = "done" /\ PhrasesOf(args.input_path) # <<>>)
         => /\ Cardinality(EventsAt("write")) = 1
            /\ fs[args.output_path] = FileNode(CsvData(PhrasesOf(args.input_path)))

\* C8: after a completed run on a directory, the output outside the input
\* tree, the files written are exactly output/p/<stem>.csv for the files at
\* relative directory p of the input tree whose suffix is the filter and whose
\* PhraseList is not empty, each holding its own file's phrases; p is every
\* directory of the tree when recursive, the input directory alone when not,
\* whatever the batch size.
Mirrored ==
  {q \in DOMAIN fs0 :
     /\ is_file(fs0, q) /\ IsPrefix(args.input_path, q)
     /\ PathSuffix(q) = args.input_file_suffix
     /\ PhrasesOf(q) # <<>>
     /\ args.recursive \/ Parent(q) = args.input_path}

FilesUnder(f, dir) == {p \in DOMAIN f : is_file(f, p) /\ IsPrefix(dir, p)}

C8_DirectoryMirroring ==
  (DirMode /\ Disjoint /\ run = 1 /\ status = "done") =>
    /\ WrittenPaths = {Dest(q) : q \in Mirrored}
    /\ FilesUnder(fs, args.output_path) =
         {Dest(q) : q \in Mirrored} \cup FilesUnder(fs0, args.output_path)
    /\ \A q \in Mirrored : fs[Dest(q)] = FileNode(CsvData(PhrasesOf(q)))
    /\ ~args.recursive => CallPaths = {args.input_path}

\* C9: within one directory level and for a positive batch size B: no file
\* is opened before the consumer asks for the first result; the files are
\* read one at a time, each closed before the next is opened; before any
\* output of batch k is written or skipped every file of batch k has been read
\* and the extractor called exactly once on that batch; no file of batch k+1
\* is opened until every file of batch k has been written or skipped; so when
\* opening a file of batch k fails, the outputs of all earlier batches are
\* settled and none of batch k or later is.
LastCall == CHOOSE c \in EventsAt("call") : \A c2 \in EventsAt("call") : c2 <= c
PosOf(files, f) == CHOOSE m \in 1..Len(files) : files[m] = f
BatchOf(m, B) == (m - 1) \div B
BatchMembers(k, B, N) == {m \in 1..N : BatchOf(m, B) = k}

C9_BatchGranularLaziness ==
  (TextRankRun /\ PositiveBatch /\ Top.pc \notin {"start", "mkdir"}
     /\ EventsAt("call") # {}
     /\ events[LastCall].path = Top.input_path /\ events[LastCall].n = Len(stack))
  => LET B == Val(args.file_batch_size)
         files == Top.input_files
         N == Len(files)
         first == LastCall
         level == {i \in 1..Len(events) : i > first}
         opens == {i \in level : events[i].op = "open"}
         reads == {i \in level : events[i].op = "read"}
         nexts == {i \in level : events[i].op = "next"}
         extracts == {i \in level : events[i].op = "extract"}
         settled == {i \in level : events[i].op \in {"write", "skip"}}
     IN /\ Cardinality(handles) <= 1
        /\ \A i \in opens :
             /\ \E j \in nexts : j < i
             /\ i < Len(events) => events[i + 1] = Ev("read", events[i].path, events[i].n)
             /\ \A m \in BatchMembers(BatchOf(PosOf(files, events[i].path), B) - 1, B, N) :
                  \E j \in settled : j < i /\ events[j].n = m
        /\ \A i \in settled :
             LET k == BatchOf(events[i].n, B) IN
               /\ \A m \in BatchMembers(k, B, N) :
                    \E j \in reads : j < i /\ events[j].path = files[m]
               /\ Cardinality({j \in extracts : j < i /\ events[j].n = k * B}) = 1
        /\ \A i, j \in extracts : events[i].n = events[j].n => i = j
        /\ (status = "failed" /\ gen.state = "raised" /\ gen.pc = "open")
             => LET k == BatchOf(PosOf(files, gen.batch[Len(gen.texts) + 1]), B) IN
                  /\ \A m \in 1..N : BatchOf(m, B) < k => \E j \in settled : events[j].n = m
                  /\ \A j \in settled : BatchOf(events[j].n, B) < k

C9_Witness ==
  /\ TextRankRun /\ args.file_batch_size = Some(2) /\ Len(Top.input_files) = 3
  /\ status = "failed" /\ error = "IsADirectoryError" /\ gen.state = "raised"
  /\ gen.batch = << <<IN_, D_TXT>> >>
  /\ Cardinality(EventsAt("read")) = 2 /\ Cardinality(EventsAt("extract")) = 1
  /\ EventsAt("write") # {} /\ EventsAt("skip") # {}

\* C10: a recursive run on a directory terminates whatever the output path,
\* also inside the input tree, and text_rank is called exactly once for each
\* directory the input tree had when the run started and for none the run
\* itself created.
DirsUnder(f, dir) == {p \in DOMAIN f : is_dir(f, p) /\ IsPrefix(dir, p)}

C10_RecursionTerminates ==
  (DirMode /\ args.recursive /\ run = 1) =>
    /\ error # "RecursionError"
    /\ CallPaths \subseteq DirsUnder(fs0, args.input_path)
    /\ Cardinality(EventsAt("call")) = Cardinality(CallPaths)
    /\ status = "done" => CallPaths = DirsUnder(fs0, args.input_path)

====
